---- MODULE Spec2Model ----
(***************************************************************************)
(* A model of the statement tokenizer of the ion shell,                    *)
(* src/parser/statement/splitter.rs: the StatementSplitter struct and its  *)
(* Iterator::next, one byte of the scan per step (specification Spec); of  *)
(* Job::expand of src/shell/job.rs (specification SpecJob); of            *)
(* TeeItem::write_to_all of the same file, one read or write per step      *)
(* (specifications SpecTee, SpecTeeFair and SpecTeeOwn); and of the        *)
(* constructors and setters of RefinedJob (specification SpecRefined).     *)
(* Each specification holds the variables of the other parts at their      *)
(* initial values.                                                         *)
(*                                                                         *)
(* A byte is a one-character string, a text a sequence of bytes; Ord gives *)
(* the byte's value where the code matches on ranges.  Only ASCII inputs   *)
(* are modelled.                                                           *)
(***************************************************************************)
EXTENDS Integers, Sequences, FiniteSets, TLC

VARIABLES
    data,      \* StatementSplitter.data: the whole input
    self,      \* the other fields of the StatementSplitter
    frame,     \* the locals of the call of next() in progress
    pc,        \* "idle": between calls; "loop": inside next(); "panicked"
    results,   \* the items returned so far, None included
    last,      \* how the latest call ended, and what its scan met
    job,       \* the Job: command, args, kind
    shell,     \* the Shell expand is given: context, history, word expander
    before,    \* the Job as Job::new made it
    expands,   \* the calls of Job::expand made
    tee,       \* the TeeItem, the call of write_to_all and its streams
    fds,       \* the descriptors of the process: open or not, times closed
    refined    \* the RefinedJob and its endpoint slots

splitterVars == <<data, self, frame, pc, results, last>>
jobVars == <<job, shell, before, expands>>
teeVars == <<tee, fds>>
vars == <<data, self, frame, pc, results, last, job, shell, before, expands,
          tee, fds, refined>>

\* the values the variables of the job and of the tee have where they
\* play no part
NoJob == [command |-> <<>>, args |-> <<>>, kind |-> "Last"]
NoShell == [context |-> FALSE, history |-> <<>>, expander |-> "literal"]
NoTee == [pc |-> "none"]
NoFds == <<>>
NoRefined == [op |-> "none"]

(***************************************************************************)
(* Bounds of the model.                                                    *)
(***************************************************************************)
\* longest input drawn from the dense alphabet
MaxLen == 4
\* longest tail, in tokens, put after a prefix in the prefixed inputs
MaxTail == 3
\* calls made after the first None
MaxNone == 1
\* most tokens after the `$((` of an arithmetic input
MaxMath == 2
\* deepest nesting of the nested inputs
MaxDepth == 256

(***************************************************************************)
(* Bytes.                                                                  *)
(***************************************************************************)
Ord(c) ==
    CASE c = "\t" -> 9
      [] c = " "  -> 32
      [] c = "\"" -> 34
      [] c = "#"  -> 35
      [] c = "$"  -> 36
      [] c = "%"  -> 37
      [] c = "&"  -> 38
      [] c = "'"  -> 39
      [] c = "("  -> 40
      [] c = ")"  -> 41
      [] c = "*"  -> 42
      [] c = ":"  -> 58
      [] c = ";"  -> 59
      [] c = "<"  -> 60
      [] c = ">"  -> 62
      [] c = "?"  -> 63
      [] c = "@"  -> 64
      [] c = "\\" -> 92
      [] c = "^"  -> 94
      [] c = "a"  -> 97
      [] c = "e"  -> 101
      [] c = "f"  -> 102
      [] c = "i"  -> 105
      [] c = "l"  -> 108
      [] c = "s"  -> 115
      [] c = "{"  -> 123
      [] c = "|"  -> 124
      [] c = "}"  -> 125

\* is_invalid: the byte matches [^A-Za-z0-9_]
is_invalid(c) ==
    LET b == Ord(c)
    IN  \/ b <= 47
        \/ (b >= 58 /\ b <= 64)
        \/ (b >= 91 /\ b <= 94)
        \/ b = 96
        \/ (b >= 123 /\ b <= 127)

\* the pattern of the VBRACE arm: [^A-Za-z0-9_:,}]
VBraceIllegal(c) ==
    LET b == Ord(c)
    IN  \/ (b >= 0 /\ b <= 43)
        \/ (b >= 45 /\ b <= 47)
        \/ (b >= 59 /\ b <= 64)
        \/ (b >= 91 /\ b <= 94)
        \/ b = 96
        \/ (b >= 123 /\ b <= 124)
        \/ (b >= 126 /\ b <= 127)

\* the bytes str::trim removes
IsWhitespace(c) == c \in {" ", "\t"}

RECURSIVE TrimStart(_)
TrimStart(t) ==
    IF t # <<>> /\ IsWhitespace(Head(t)) THEN TrimStart(Tail(t)) ELSE t

RECURSIVE TrimEnd(_)
TrimEnd(t) ==
    IF t # <<>> /\ IsWhitespace(t[Len(t)])
    THEN TrimEnd(SubSeq(t, 1, Len(t) - 1))
    ELSE t

Trim(t) == TrimEnd(TrimStart(t))

\* data[from..to] of the code: the bytes at offsets from .. to-1
Slice(d, from, to) == SubSeq(d, from + 1, to)

ElseWord == <<"e", "l", "s", "e">>
IfWord == <<"i", "f">>

(***************************************************************************)
(* Flags, errors and items.                                                *)
(***************************************************************************)
Flags ==
    {"DQUOTE", "COMM_1", "COMM_2", "VBRACE", "ARRAY", "VARIAB", "METHOD",
     "MATHEXPR", "POST_MATHEXPR"}

NoError == [kind |-> "None", ch |-> "", pos |-> 0]

InvalidCharacter(c, n) == [kind |-> "InvalidCharacter", ch |-> c, pos |-> n]

UnterminatedArithmetic ==
    [kind |-> "UnterminatedArithmetic", ch |-> "", pos |-> 0]

\* Some(Ok(text))
OkItem(t) ==
    [tag |-> "Ok", text |-> t, kind |-> "", ch |-> "", pos |-> 0, what |-> ""]

\* Some(Err(error)) of a recorded error
ErrItem(e) ==
    [tag |-> "Err", text |-> <<>>, kind |-> e.kind, ch |-> e.ch,
     pos |-> e.pos, what |-> ""]

\* Some(Err(kind)) of an error without a position
ErrKind(k) ==
    [tag |-> "Err", text |-> <<>>, kind |-> k, ch |-> "", pos |-> 0,
     what |-> ""]

ExpectedCommandButFound(w) ==
    [tag |-> "Err", text |-> <<>>, kind |-> "ExpectedCommandButFound",
     ch |-> "", pos |-> 0, what |-> w]

IllegalCommandName(t) ==
    [tag |-> "Err", text |-> t, kind |-> "IllegalCommandName", ch |-> "",
     pos |-> 0, what |-> ""]

NoneItem ==
    [tag |-> "None", text |-> <<>>, kind |-> "", ch |-> "", pos |-> 0,
     what |-> ""]

\* the call panicked: no item is returned
PanicItem ==
    [tag |-> "Panic", text |-> <<>>, kind |-> "", ch |-> "", pos |-> 0,
     what |-> ""]

\* match error { Some(error) => Some(Err(error)), None => Some(Ok(text)) }
ErrorOr(error, t) == IF error # NoError THEN ErrItem(error) ELSE OkItem(t)

\* if error.is_none() { error = Some(e) }
Record(error, e) == IF error = NoError THEN e ELSE error

(***************************************************************************)
(* StatementSplitter::new and the locals of next().                        *)
(***************************************************************************)
NewSplitter ==
    [read |-> 0, flags |-> {}, a_level |-> 0, ap_level |-> 0, p_level |-> 0,
     brace_level |-> 0, math_paren_level |-> 0]

NewFrame(sp) ==
    [start |-> sp.read, first_arg_found |-> FALSE, else_found |-> FALSE,
     else_pos |-> 0, error |-> NoError]

\* One step of a scan: the splitter and the locals after it, how the loop
\* body ended ("next": falls to the end of the body, "continue", "return",
\* "panic"), the item returned, the place that returned it, and the error
\* the step raised (kept in fr.error only when it is the first).
Go(sp, fr) ==
    [sp |-> sp, fr |-> fr, ctl |-> "next", item |-> NoneItem, how |-> "",
     raised |-> NoError]
Continue(sp, fr) ==
    [sp |-> sp, fr |-> fr, ctl |-> "continue", item |-> NoneItem, how |-> "",
     raised |-> NoError]
Raise(sp, fr, e) ==
    [sp |-> sp, fr |-> [fr EXCEPT !.error = Record(fr.error, e)],
     ctl |-> "next", item |-> NoneItem, how |-> "", raised |-> e]
Return(sp, fr, item, how) ==
    [sp |-> sp, fr |-> fr, ctl |-> "return", item |-> item, how |-> how,
     raised |-> NoError]
Panic(sp, fr) ==
    [sp |-> sp, fr |-> fr, ctl |-> "panic", item |-> PanicItem,
     how |-> "panic", raised |-> NoError]

(***************************************************************************)
(* The arms of the match in next().  Each takes the splitter with read     *)
(* already advanced past the byte c.                                       *)
(***************************************************************************)
\* single_quote: the number it adds to read, the iterator being at offset i
RECURSIVE single_quote(_, _)
single_quote(d, i) ==
    IF i >= Len(d) THEN 0
    ELSE IF d[i + 1] = "\\" THEN 2 + single_quote(d, i + 2)
    ELSE IF d[i + 1] = "'" THEN 1
    ELSE 1 + single_quote(d, i + 1)

\* b'\\'
ArmBackslash(sp, fr) == Go([sp EXCEPT !.read = @ + 1], fr)

\* _ if POST_MATHEXPR
ArmPostMath(sp, fr) == Go([sp EXCEPT !.flags = @ \ {"POST_MATHEXPR"}], fr)

\* [^A-Za-z0-9_:,}] if VBRACE
ArmVBrace(sp, fr, c) == Raise(sp, fr, InvalidCharacter(c, sp.read))

\* b'\'' if !DQUOTE
ArmSingleQuote(d, sp, fr) ==
    Go([sp EXCEPT !.flags = @ \ {"VARIAB", "ARRAY"},
                  !.read = @ + single_quote(d, sp.read)], fr)

\* b'"'
ArmDQuote(sp, fr) ==
    Go([sp EXCEPT !.flags =
            (IF "DQUOTE" \in @ THEN @ \ {"DQUOTE"} ELSE @ \cup {"DQUOTE"})
                \ {"VARIAB", "ARRAY"}], fr)

\* b'@'
ArmAt(sp, fr) ==
    Continue([sp EXCEPT !.flags = (@ \ {"COMM_1"}) \cup {"COMM_2", "ARRAY"}],
             fr)

\* b'$'
ArmDollar(sp, fr) ==
    Continue([sp EXCEPT !.flags = (@ \ {"COMM_2"}) \cup {"COMM_1", "VARIAB"}],
             fr)

\* b'{' if COMM_1 | COMM_2
ArmVBraceOpen(sp, fr) == Go([sp EXCEPT !.flags = @ \cup {"VBRACE"}], fr)

\* b'{' if !DQUOTE
ArmBraceOpen(sp, fr) == Go([sp EXCEPT !.brace_level = (@ + 1) % 256], fr)

\* b'}' if VBRACE
ArmVBraceClose(sp, fr) == Go([sp EXCEPT !.flags = @ \ {"VBRACE"}], fr)

\* b'}' if !DQUOTE
ArmBraceClose(sp, fr, c) ==
    IF sp.brace_level = 0
    THEN Raise(sp, fr, InvalidCharacter(c, sp.read))
    ELSE Go([sp EXCEPT !.brace_level = @ - 1], fr)

\* b'(' if MATHEXPR
ArmMathOpen(sp, fr) ==
    Go([sp EXCEPT !.math_paren_level =
            IF @ = 127 THEN -128 ELSE @ + 1], fr)

\* b'(' if !(COMM_1 | VARIAB | ARRAY)
ArmBareParen(sp, fr, c) ==
    IF "DQUOTE" \notin sp.flags
    THEN Raise(sp, fr, InvalidCharacter(c, sp.read))
    ELSE Go(sp, fr)

\* b'(' if COMM_1 | METHOD
ArmSubshellOpen(d, sp, fr) ==
    LET f == sp.flags \ {"VARIAB", "ARRAY"}
    IN  IF sp.read >= Len(d)
        THEN Panic([sp EXCEPT !.flags = f], fr)
        ELSE IF d[sp.read + 1] = "("
        THEN Go([sp EXCEPT !.flags = (f \ {"COMM_1"}) \cup {"MATHEXPR"},
                           !.math_paren_level = -1], fr)
        ELSE Go([sp EXCEPT !.flags = f, !.p_level = (@ + 1) % 256], fr)

\* b'(' if COMM_2
ArmArrayProcessOpen(sp, fr) == Go([sp EXCEPT !.ap_level = (@ + 1) % 256], fr)

\* b'(' if VARIAB | ARRAY
ArmMethodOpen(sp, fr) ==
    Go([sp EXCEPT !.flags = (@ \ {"VARIAB", "ARRAY"}) \cup {"METHOD"}], fr)

\* b')' if MATHEXPR
ArmMathClose(d, sp, fr) ==
    IF sp.math_paren_level = 0
    THEN IF Len(d) <= sp.read
         THEN Raise(sp, fr, UnterminatedArithmetic)
         ELSE IF d[sp.read + 1] = ")"
         THEN Go([sp EXCEPT !.flags =
                      (@ \ {"MATHEXPR"}) \cup {"POST_MATHEXPR"}], fr)
         ELSE Raise(sp, fr, InvalidCharacter(d[sp.read + 1], sp.read))
    ELSE Go([sp EXCEPT !.math_paren_level =
                 IF @ = -128 THEN 127 ELSE @ - 1], fr)

\* b')' if METHOD && p_level == 0
ArmMethodClose(sp, fr) == Go([sp EXCEPT !.flags = @ \ {"METHOD"}], fr)

\* ArmStrayParen, the position counted from the start of the statement
ArmStrayParenRelative(sp, fr, c) ==
    IF "DQUOTE" \notin sp.flags
    THEN Raise(sp, fr, InvalidCharacter(c, sp.read - fr.start))
    ELSE Go(sp, fr)

\* b')' if p_level + ap_level == 0
ArmStrayParen(sp, fr, c) ==
    IF "DQUOTE" \notin sp.flags
    THEN Raise(sp, fr, InvalidCharacter(c, sp.read))
    ELSE Go(sp, fr)

\* b')' if p_level != 0
ArmSubshellClose(sp, fr) == Go([sp EXCEPT !.p_level = @ - 1], fr)

\* b')'
ArmArrayProcessClose(sp, fr) == Go([sp EXCEPT !.ap_level = @ - 1], fr)

\* SemiEnds without the test of DQUOTE
SemiEndsInQuotes(sp) == sp.p_level = 0 /\ sp.ap_level = 0

\* the guard of the b';' arm
SemiEnds(sp) ==
    "DQUOTE" \notin sp.flags /\ sp.p_level = 0 /\ sp.ap_level = 0

\* b';': the statement is data[start..read - 1], trimmed
ArmSemi(d, sp, fr) ==
    Return(sp, fr, ErrorOr(fr.error, Trim(Slice(d, fr.start, sp.read - 1))),
           "semi")

\* CommentStarts, a tab before the `#` not counted as a blank
CommentStartsAfterSpaceOnly(d, sp) ==
    \/ sp.read = 1
    \/ /\ "DQUOTE" \notin sp.flags
       /\ (sp.p_level + sp.ap_level) % 256 = 0
       /\ d[sp.read - 1] = " "

\* the guard of the b'#' arm
CommentStarts(d, sp) ==
    \/ sp.read = 1
    \/ /\ "DQUOTE" \notin sp.flags
       /\ (sp.p_level + sp.ap_level) % 256 = 0
       /\ d[sp.read - 1] \in {" ", "\t"}

\* b'#': the statement ends and the rest of the input is dropped
ArmComment(d, sp, fr) ==
    Return([sp EXCEPT !.read = Len(d)], fr,
           ErrorOr(fr.error, Trim(Slice(d, fr.start, sp.read - 1))),
           "comment")

\* b' ' if else_found
ArmElseLookahead(d, sp, fr) ==
    LET output == Trim(Slice(d, fr.else_pos, sp.read - 1))
    IN  IF output # <<>> /\ output # IfWord
        THEN Return([sp EXCEPT !.read = fr.else_pos], fr, OkItem(ElseWord),
                    "else")
        ELSE Go(sp, [fr EXCEPT !.else_found = FALSE])

\* b' ' if !first_arg_found
ArmFirstWord(d, sp, fr) ==
    LET output == Trim(Slice(d, fr.start, sp.read - 1))
    IN  IF output = <<>> THEN Go(sp, fr)
        ELSE IF output = ElseWord
        THEN Go(sp, [fr EXCEPT !.else_found = TRUE, !.else_pos = sp.read])
        ELSE Go(sp, [fr EXCEPT !.first_arg_found = TRUE])

\* byte => : a byte outside [A-Za-z0-9_] ends the name after a sigil
ArmOther(sp, fr, c) ==
    IF sp.flags \cap {"VARIAB", "ARRAY"} # {} /\ is_invalid(c)
    THEN Go([sp EXCEPT !.flags = @ \ {"VARIAB", "ARRAY"}], fr)
    ELSE Go(sp, fr)

(***************************************************************************)
(* The body of the loop of next(): the match on the byte at offset         *)
(* sp.read, its arms tried in the order of the code, then the clearing of  *)
(* COMM_1 and COMM_2 that every arm but `$` and `@` falls to.              *)
(***************************************************************************)
Match(d, sp0, fr) ==
    LET c == d[sp0.read + 1]
        sp == [sp0 EXCEPT !.read = @ + 1]
        f == sp.flags
    IN  IF c = "\\" THEN ArmBackslash(sp, fr)
        ELSE IF "POST_MATHEXPR" \in f THEN ArmPostMath(sp, fr)
        ELSE IF VBraceIllegal(c) /\ "VBRACE" \in f THEN ArmVBrace(sp, fr, c)
        ELSE IF c = "'" /\ "DQUOTE" \notin f THEN ArmSingleQuote(d, sp, fr)
        ELSE IF c = "\"" THEN ArmDQuote(sp, fr)
        ELSE IF c = "@" THEN ArmAt(sp, fr)
        ELSE IF c = "$" THEN ArmDollar(sp, fr)
        ELSE IF c = "{" /\ f \cap {"COMM_1", "COMM_2"} # {}
        THEN ArmVBraceOpen(sp, fr)
        ELSE IF c = "{" /\ "DQUOTE" \notin f THEN ArmBraceOpen(sp, fr)
        ELSE IF c = "}" /\ "VBRACE" \in f THEN ArmVBraceClose(sp, fr)
        ELSE IF c = "}" /\ "DQUOTE" \notin f THEN ArmBraceClose(sp, fr, c)
        ELSE IF c = "(" /\ "MATHEXPR" \in f THEN ArmMathOpen(sp, fr)
        ELSE IF c = "(" /\ f \cap {"COMM_1", "VARIAB", "ARRAY"} = {}
        THEN ArmBareParen(sp, fr, c)
        ELSE IF c = "(" /\ f \cap {"COMM_1", "METHOD"} # {}
        THEN ArmSubshellOpen(d, sp, fr)
        ELSE IF c = "(" /\ "COMM_2" \in f THEN ArmArrayProcessOpen(sp, fr)
        ELSE IF c = "(" /\ f \cap {"VARIAB", "ARRAY"} # {}
        THEN ArmMethodOpen(sp, fr)
        ELSE IF c = ")" /\ "MATHEXPR" \in f THEN ArmMathClose(d, sp, fr)
        ELSE IF c = ")" /\ "METHOD" \in f /\ sp.p_level = 0
        THEN ArmMethodClose(sp, fr)
        ELSE IF c = ")" /\ (sp.p_level + sp.ap_level) % 256 = 0
        THEN ArmStrayParen(sp, fr, c)
        ELSE IF c = ")" /\ sp.p_level # 0 THEN ArmSubshellClose(sp, fr)
        ELSE IF c = ")" THEN ArmArrayProcessClose(sp, fr)
        ELSE IF c = ";" /\ SemiEnds(sp) THEN ArmSemi(d, sp, fr)
        ELSE IF c = "#" /\ CommentStarts(d, sp) THEN ArmComment(d, sp, fr)
        ELSE IF c = " " /\ fr.else_found THEN ArmElseLookahead(d, sp, fr)
        ELSE IF c = " " /\ ~fr.first_arg_found THEN ArmFirstWord(d, sp, fr)
        ELSE ArmOther(sp, fr, c)

\* self.flags -= COMM_1 | COMM_2, at the end of the loop body
LoopEnd(t) ==
    IF t.ctl = "next"
    THEN [t EXCEPT !.sp.flags = @ \ {"COMM_1", "COMM_2"}]
    ELSE t

ByteStep(d, sp, fr) == LoopEnd(Match(d, sp, fr))

(***************************************************************************)
(* After the loop: the iterator is exhausted.                              *)
(***************************************************************************)
\* LeadingCheck, a `^` taken for the start of a command name
LeadingCheckCaretAsName(output) ==
    IF output = <<>> THEN OkItem(output)
    ELSE IF Head(output) \in {">", "<"}
    THEN ExpectedCommandButFound("redirection")
    ELSE IF Head(output) = "|" THEN ExpectedCommandButFound("pipe")
    ELSE IF Head(output) = "&" THEN ExpectedCommandButFound("&")
    ELSE IF Head(output) \in {"^", "*", "%", "?", "{", "}"}
    THEN IllegalCommandName(output)
    ELSE OkItem(output)

\* the check of the first byte of the last statement
LeadingCheck(output) ==
    IF output = <<>> THEN OkItem(output)
    ELSE IF Head(output) \in {">", "<", "^"}
    THEN ExpectedCommandButFound("redirection")
    ELSE IF Head(output) = "|" THEN ExpectedCommandButFound("pipe")
    ELSE IF Head(output) = "&" THEN ExpectedCommandButFound("&")
    ELSE IF Head(output) \in {"*", "%", "?", "{", "}"}
    THEN IllegalCommandName(output)
    ELSE OkItem(output)

\* EofItem, an open double quote reported like an open substitution
EofItemQuoteChecked(d, sp, fr) ==
    IF fr.error # NoError THEN ErrItem(fr.error)
    ELSE IF sp.p_level # 0 \/ sp.ap_level # 0 \/ sp.a_level # 0
            \/ "DQUOTE" \in sp.flags
    THEN ErrKind("UnterminatedSubshell")
    ELSE IF "METHOD" \in sp.flags THEN ErrKind("UnterminatedMethod")
    ELSE IF "VBRACE" \in sp.flags THEN ErrKind("UnterminatedBracedVar")
    ELSE IF sp.brace_level # 0 THEN ErrKind("UnterminatedBrace")
    ELSE IF "MATHEXPR" \in sp.flags THEN ErrKind("UnterminatedArithmetic")
    ELSE LeadingCheck(Trim(Slice(d, fr.start, Len(d))))

\* the match on error at the end of the input
EofItem(d, sp, fr) ==
    IF fr.error # NoError THEN ErrItem(fr.error)
    ELSE IF sp.p_level # 0 \/ sp.ap_level # 0 \/ sp.a_level # 0
    THEN ErrKind("UnterminatedSubshell")
    ELSE IF "METHOD" \in sp.flags THEN ErrKind("UnterminatedMethod")
    ELSE IF "VBRACE" \in sp.flags THEN ErrKind("UnterminatedBracedVar")
    ELSE IF sp.brace_level # 0 THEN ErrKind("UnterminatedBrace")
    ELSE IF "MATHEXPR" \in sp.flags THEN ErrKind("UnterminatedArithmetic")
    ELSE LeadingCheck(Trim(Slice(d, fr.start, Len(d))))

AfterLoop(d, sp, fr) ==
    IF fr.start = sp.read
    THEN Return(sp, fr, NoneItem, "none")
    ELSE Return([sp EXCEPT !.read = Len(d)], fr, EofItem(d, sp, fr), "eof")

(***************************************************************************)
(* next() and the whole iteration as functions, built from the same steps. *)
(***************************************************************************)
\* the loop of next(), from the splitter sp and the locals fr
RECURSIVE Scan(_, _, _)
Scan(d, sp, fr) ==
    IF sp.read >= Len(d) THEN AfterLoop(d, sp, fr)
    ELSE LET t == ByteStep(d, sp, fr)
         IN  IF t.ctl \in {"return", "panic"} THEN t ELSE Scan(d, t.sp, t.fr)

\* one call of next()
NextOf(d, sp) == Scan(d, sp, NewFrame(sp))

\* the items the calls yield from the splitter sp on, up to the first None
\* (left out) or the panic (kept as the last item)
RECURSIVE Collect(_, _)
Collect(d, sp) ==
    LET t == NextOf(d, sp)
    IN  IF t.ctl = "panic" THEN <<PanicItem>>
        ELSE IF t.item = NoneItem THEN <<>>
        ELSE <<t.item>> \o Collect(d, t.sp)

\* StatementSplitter::new(d).collect()
SplitAll(d) == Collect(d, NewSplitter)

(***************************************************************************)
(* The inputs.                                                             *)
(***************************************************************************)
\* the bytes of the inputs of length up to MaxLen
Alphabet == {"$", "a", "(", ")", ";", "\"", "{", "}", "#", " "}

\* the bytes of the inputs of length below MaxLen
WideAlphabet == Alphabet \cup {"@", "'", "\\", "\t"}

\* the texts that start the prefixed inputs: an `else `, and a braced
\* variable opened inside double quotes
Prefixes == {ElseWord \o <<" ">>, <<"\"", "$", "{">>}

\* the tokens of the tails put after a prefix
TailTokens ==
    {IfWord, <<"a">>, <<" ">>, <<";">>, <<"\"">>, <<"}">>, <<"{">>, <<"(">>,
     <<")">>, <<":">>, <<"$">>}

SeqsUpTo(S, n) == UNION {[1..k -> S] : k \in 0..n}

RECURSIVE Flatten(_)
Flatten(ts) == IF ts = <<>> THEN <<>> ELSE Head(ts) \o Flatten(Tail(ts))

DenseInputs ==
    SeqsUpTo(Alphabet, MaxLen) \cup SeqsUpTo(WideAlphabet, MaxLen - 1)

PrefixedInputs ==
    {p \o Flatten(ts) : p \in Prefixes, ts \in SeqsUpTo(TailTokens, MaxTail)}

\* the text t repeated n times
Rep(t, n) == [i \in 1..(n * Len(t)) |-> t[((i - 1) % Len(t)) + 1]]

\* the depths of the nested inputs
Depths == {1, 2, MaxDepth \div 2, MaxDepth}

\* balanced inputs of one word: n nested `$(`, n nested `@(`, `$(` and `@(`
\* nested n deep together, n nested braces, n nested parentheses in `$((`
NestedInputs ==
    UNION {{<<"a">> \o Rep(<<"$", "(">>, n) \o Rep(<<")">>, n),
            <<"a">> \o Rep(<<"@", "(">>, n) \o Rep(<<")">>, n),
            <<"a">> \o Rep(<<"$", "(">>, n \div 2)
                   \o Rep(<<"@", "(">>, n - (n \div 2)) \o Rep(<<")">>, n),
            <<"a">> \o Rep(<<"{">>, n) \o Rep(<<"}">>, n),
            <<"a", "$", "(", "(">> \o Rep(<<"(">>, n) \o Rep(<<")">>, n)
                   \o <<")", ")">>} : n \in Depths}

\* the bytes the check of the first byte of the last statement looks for
\* that the other inputs lack
LeadBytes == {">", "<", "^", "|", "&", "*", "%", "?"}

\* a last statement with such a byte first, or not first
LeadInputs ==
    UNION {{<<c>>, <<c, "a">>, <<" ", c, " ">>, <<"a", c>>, <<";", c, "a">>}
             : c \in LeadBytes}

\* the tokens put after the `$((` of an arithmetic input
MathTokens ==
    {<<"(">>, <<")">>, <<"a">>, <<";">>, <<" ">>, <<"$", "{">>, <<"}">>}

\* an arithmetic expression opened first, or after a statement, and what
\* may close it or not
ArithmeticInputs ==
    {p \o <<"$", "(", "(">> \o Flatten(ts) :
        p \in {<<>>, <<"a", ";">>}, ts \in SeqsUpTo(MathTokens, MaxMath)}

Inputs ==
    DenseInputs \cup PrefixedInputs \cup NestedInputs \cup LeadInputs
        \cup ArithmeticInputs

(***************************************************************************)
(* The state machine: a caller that constructs a splitter on some input    *)
(* and calls next() again and again, one byte of the scan per step.        *)
(***************************************************************************)
\* what `last` holds: how the latest call ended ("" while none has), the
\* value of read when it was entered, and every error its scan raised, in
\* order, whether recorded or not
NoCall == [how |-> "", entry |-> 0, raised |-> <<>>]

Init ==
    /\ data \in Inputs
    /\ self = NewSplitter
    /\ frame = NewFrame(NewSplitter)
    /\ pc = "idle"
    /\ results = <<>>
    /\ last = NoCall
    /\ job = NoJob /\ shell = NoShell /\ before = NoJob /\ expands = 0
    /\ tee = NoTee /\ fds = NoFds /\ refined = NoRefined

NonesReturned == Cardinality({i \in DOMAIN results : results[i] = NoneItem})

\* the caller calls next(): the locals are initialised
Call ==
    /\ pc = "idle"
    /\ NonesReturned < 1 + MaxNone
    /\ frame' = NewFrame(self)
    /\ pc' = "loop"
    /\ last' = [how |-> "", entry |-> self.read, raised |-> <<>>]
    /\ UNCHANGED <<data, self, results>>
    /\ UNCHANGED <<jobVars, teeVars, refined>>

\* what a step that ended the call, or did not, leaves
Apply(t) ==
    /\ self' = t.sp
    /\ frame' = t.fr
    /\ pc' = CASE t.ctl = "return" -> "idle"
               [] t.ctl = "panic" -> "panicked"
               [] OTHER -> "loop"
    /\ results' = IF t.ctl = "return" THEN Append(results, t.item) ELSE results
    /\ last' = [last EXCEPT
                  !.how = t.how,
                  !.raised = IF t.raised # NoError
                             THEN Append(@, t.raised) ELSE @]
    /\ UNCHANGED data
    /\ UNCHANGED <<jobVars, teeVars, refined>>

\* one iteration of the loop of next()
Step ==
    /\ pc = "loop"
    /\ self.read < Len(data)
    /\ Apply(ByteStep(data, self, frame))

\* the iterator is exhausted: next() returns None or the last statement
Exhausted ==
    /\ pc = "loop"
    /\ self.read >= Len(data)
    /\ Apply(AfterLoop(data, self, frame))

Next == Call \/ Step \/ Exhausted

Spec == Init /\ [][Next]_vars

(***************************************************************************)
(* What the properties below speak of.                                     *)
(***************************************************************************)
\* the latest call has returned, from the place `how`
Ended(how) == pc = "idle" /\ last.how = how

\* the item the latest call returned
LastItem == results[Len(results)]

\* the loop of next() is about to match the byte Byte
Met == pc = "loop" /\ self.read < Len(data)
Byte == data[self.read + 1]

\* the input not yet read
Rest == SubSeq(data, self.read + 1, Len(data))

\* no flag is set and every nesting counter is zero
Clean(sp) ==
    /\ sp.flags = {}
    /\ sp.p_level = 0 /\ sp.ap_level = 0 /\ sp.a_level = 0
    /\ sp.brace_level = 0 /\ sp.math_paren_level = 0

\* no sigil is pending and no name started by a sigil is being read
NoSigil(f) == f \cap {"COMM_1", "COMM_2", "VARIAB", "ARRAY"} = {}

\* the items, every InvalidCharacter position moved by k bytes
Shift(items, k) ==
    [i \in DOMAIN items |->
        IF items[i].kind = "InvalidCharacter"
        THEN [items[i] EXCEPT !.pos = @ + k]
        ELSE items[i]]

(***************************************************************************)
(* C1.  A `;` ends the statement only outside double quotes and outside    *)
(* every open `$(`, `@(` and method-call argument list: whenever a call    *)
(* has returned at a `;`, DQUOTE and METHOD are clear and p_level and      *)
(* ap_level are zero.                                                      *)
(***************************************************************************)
C1_SemicolonOnlyOutsideOpenConstructs ==
    Ended("semi") =>
        /\ "DQUOTE" \notin self.flags
        /\ self.p_level = 0 /\ self.ap_level = 0
        /\ "METHOD" \notin self.flags

(***************************************************************************)
(* C2 as stated.  No byte met while DQUOTE is set, and no single-quoted    *)
(* region, splits or fails the statement: a `;` or `#` met inside double   *)
(* quotes does not end the call, a `{` or `(` met there with no sigil      *)
(* before it records no error and changes no nesting counter, and a        *)
(* single-quoted region is passed over likewise.                           *)
(***************************************************************************)
LevelsKept ==
    /\ self'.brace_level = self.brace_level
    /\ self'.p_level = self.p_level
    /\ self'.ap_level = self.ap_level

SingleQuotedRegionInert ==
    (/\ Met /\ Byte = "'"
     /\ self.flags \cap {"DQUOTE", "POST_MATHEXPR", "VBRACE"} = {})
        => pc' = "loop" /\ frame'.error = frame.error /\ LevelsKept

UnterminatedKinds ==
    {"UnterminatedSubshell", "UnterminatedMethod", "UnterminatedBracedVar",
     "UnterminatedBrace", "UnterminatedArithmetic"}

C4_UnterminatedAtEndOfInput ==
    /\ pc # "panicked"
    /\ (Ended("eof") /\ frame.error = NoError) =>
          IF self.p_level # 0 \/ self.ap_level # 0
          THEN LastItem = ErrKind("UnterminatedSubshell")
          ELSE IF "METHOD" \in self.flags
          THEN LastItem = ErrKind("UnterminatedMethod")
          ELSE IF "VBRACE" \in self.flags
          THEN LastItem = ErrKind("UnterminatedBracedVar")
          ELSE IF self.brace_level # 0
          THEN LastItem = ErrKind("UnterminatedBrace")
          ELSE IF "MATHEXPR" \in self.flags
          THEN LastItem = ErrKind("UnterminatedArithmetic")
          ELSE LastItem.kind \notin UnterminatedKinds

(***************************************************************************)
(* C5 as stated.  When the input ends with DQUOTE still set, the last      *)
(* statement yields an error.                                              *)
(***************************************************************************)
C5_OpenQuoteIsError ==
    (Ended("eof") /\ "DQUOTE" \in self.flags) => LastItem.tag = "Err"

(***************************************************************************)
(* C5 as amended.  An unclosed double quote is not reported: when the      *)
(* input ends with DQUOTE set, no error was recorded, nothing else is open *)
(* and the trimmed text does not begin with a byte the leading-character   *)
(* check rejects, the last statement is yielded Ok with its trimmed text.  *)
(***************************************************************************)
RejectedFirstBytes == {">", "<", "^", "|", "&", "*", "%", "?", "{", "}"}

C5_OpenQuoteIsNotReported ==
    LET text == Trim(Slice(data, frame.start, Len(data)))
    IN  (/\ Ended("eof") /\ "DQUOTE" \in self.flags
         /\ frame.error = NoError
         /\ self.p_level = 0 /\ self.ap_level = 0 /\ self.brace_level = 0
         /\ self.flags \cap {"METHOD", "VBRACE", "MATHEXPR"} = {}
         /\ text # <<>> /\ Head(text) \notin RejectedFirstBytes)
            => LastItem = OkItem(text)

\* the input ended inside a double-quoted region that holds a byte, and the
\* statement was yielded Ok
C5_Witness ==
    /\ Ended("eof") /\ "DQUOTE" \in self.flags
    /\ LastItem.tag = "Ok"
    /\ Len(LastItem.text) >= 2
    /\ Head(LastItem.text) = "\""

(***************************************************************************)
(* C6.  An error raised while a statement is scanned is what the statement *)
(* yields: a call that ends at a `;`, at a comment or at the end of the    *)
(* input after its scan raised an error returns Err with the first error   *)
(* raised, and when the call ends by emitting `else` after the look-ahead  *)
(* word raised an error, no Ok is yielded for the text of that word.       *)
(***************************************************************************)
C6_FirstErrorIsYielded ==
    (/\ pc = "idle"
     /\ last.how \in {"semi", "comment", "eof", "else"}
     /\ last.raised # <<>>)
        => IF last.how = "else"
           THEN NextOf(data, self).item.tag # "Ok"
           ELSE LastItem = ErrItem(Head(last.raised))

(***************************************************************************)
(* C7.  When the iteration has ended and every statement yielded is Ok,    *)
(* the statements joined with `;` and split again are the same statements. *)
(***************************************************************************)
\* the items yielded, the None left out
Statements == SelectSeq(results, LAMBDA it : it # NoneItem)

RECURSIVE JoinSemi(_)
JoinSemi(items) ==
    IF items = <<>> THEN <<>>
    ELSE IF Len(items) = 1 THEN items[1].text
    ELSE items[1].text \o <<";">> \o JoinSemi(Tail(items))

C7_RejoinedSplitsTheSame ==
    (/\ Ended("none")
     /\ \A i \in DOMAIN Statements : Statements[i].tag = "Ok")
        => SplitAll(JoinSemi(Statements)) = Statements

(***************************************************************************)
(* C8 as stated.  A `#` met as the first byte of the input, or right after *)
(* a space or tab with DQUOTE clear and p_level = ap_level = 0, ends the   *)
(* call with the statement before it and leaves read at the end of the     *)
(* input; after such a call every call returns None; and a `#` met with    *)
(* p_level or ap_level non-zero does not end the call.                     *)
(***************************************************************************)
AfterBlank == self.read >= 1 /\ data[self.read] \in {" ", "\t"}

EndsAsComment ==
    /\ pc' = "idle" /\ last'.how = "comment"
    /\ self'.read = Len(data)
    /\ results' = Append(results,
                         ErrorOr(frame.error,
                                 Trim(Slice(data, frame.start, self.read))))

NothingAfterComment == Ended("comment") => Collect(data, self) = <<>>

C9_CallsReturnAndAdvance ==
    /\ pc # "panicked"
    /\ (pc = "idle" /\ last.how \in {"semi", "comment", "eof", "else"})
          => self.read > last.entry
    /\ \A i, j \in DOMAIN results :
          (i < j /\ results[i] = NoneItem) => results[j] = NoneItem

(***************************************************************************)
(* C10.  When the input starts with `else `, followed by a word of         *)
(* identifier bytes that a space, a `;` or the end of the input ends, the  *)
(* first item yielded is the statement `else` if and only if that word is  *)
(* not `if`.                                                               *)
(***************************************************************************)
\* the length of the run of identifier bytes of d from offset i on
RECURSIVE WordLen(_, _)
WordLen(d, i) ==
    IF i < Len(d) /\ ~is_invalid(d[i + 1]) THEN 1 + WordLen(d, i + 1) ELSE 0

C10_ElseSplitUnlessIf ==
    LET n == WordLen(data, 5)
        word == SubSeq(data, 6, 5 + n)
    IN  (/\ Len(results) >= 1
         /\ Len(data) >= 6
         /\ SubSeq(data, 1, 5) = ElseWord \o <<" ">>
         /\ n >= 1
         /\ (5 + n = Len(data) \/ data[6 + n] \in {" ", ";"}))
            => (results[1] = OkItem(ElseWord) <=> word # IfWord)

(***************************************************************************)
(* C11.  A `(` met with DQUOTE and MATHEXPR clear, that no `$` or `@`      *)
(* followed only by identifier bytes precedes, leaves an error recorded    *)
(* for the statement and opens nothing: p_level, ap_level, METHOD and      *)
(* MATHEXPR are as before.                                                 *)
(***************************************************************************)
\* the byte d[k] directly follows a sigil or the name a sigil starts
SigilContext(d, k) ==
    \E j \in 1..(k - 1) :
        /\ d[j] \in {"$", "@"}
        /\ \A m \in (j + 1)..(k - 1) : ~is_invalid(d[m])

C11_BareParenIsError ==
    [][(/\ Met /\ Byte = "("
        /\ self.flags \cap {"DQUOTE", "MATHEXPR"} = {}
        /\ ~SigilContext(data, self.read + 1))
          => /\ pc' # "panicked"
             /\ frame'.error # NoError
             /\ self'.p_level = self.p_level
             /\ self'.ap_level = self.ap_level
             /\ self'.flags \cap {"METHOD", "MATHEXPR"}
                  = self.flags \cap {"METHOD", "MATHEXPR"}]_vars

(***************************************************************************)
(* C12.  p_level, ap_level and brace_level are never negative and          *)
(* math_paren_level is never below -1; it is -1 only between the two `(`   *)
(* of a `$((`, and it is not negative when a call has returned.  A `)` met *)
(* with nothing open, or a `}` met with brace_level zero and no braced     *)
(* variable open, outside double quotes, leaves an error recorded and the  *)
(* counters as they were.                                                  *)
(***************************************************************************)
CountersInRange ==
    /\ self.p_level >= 0 /\ self.ap_level >= 0 /\ self.brace_level >= 0
    /\ self.math_paren_level >= -1
    /\ self.math_paren_level = -1
          => /\ Met /\ Byte = "("
             /\ self.read >= 1 /\ data[self.read] = "("
    /\ pc = "idle" => self.math_paren_level >= 0

StrayCloseIsError ==
    /\ (/\ Met /\ Byte = ")"
        /\ self.p_level = 0 /\ self.ap_level = 0
        /\ self.flags
             \cap {"DQUOTE", "MATHEXPR", "POST_MATHEXPR", "METHOD", "VBRACE"}
             = {})
          => frame'.error # NoError /\ LevelsKept
    /\ (/\ Met /\ Byte = "}"
        /\ self.brace_level = 0
        /\ self.flags \cap {"DQUOTE", "POST_MATHEXPR", "VBRACE"} = {})
          => frame'.error # NoError /\ LevelsKept

C12_CountersNeverNegative ==
    []CountersInRange /\ [][StrayCloseIsError]_vars

(***************************************************************************)
(* C13.  A balanced input of one word nested to any depth, by `$(` or `@(` *)
(* substitutions, by braces or by parentheses inside `$((`, is yielded as  *)
(* one Ok statement equal to the input.                                    *)
(***************************************************************************)
C13_DeepNestingIsOneStatement ==
    (data \in NestedInputs /\ Len(results) >= 1)
        => results[1] = OkItem(data)

(***************************************************************************)
(* C14.  When the call that reaches the end of the input recorded no error *)
(* and nothing is open, the last statement is judged by the first byte of  *)
(* its trimmed text: no text yields Ok of the empty text; `>`, `<` or `^`  *)
(* yields ExpectedCommandButFound("redirection"), `|` "pipe", `&` "&";     *)
(* `*`, `%`, `?`, `{` or `}` yields IllegalCommandName of the whole        *)
(* trimmed text; any other byte yields Ok of the trimmed text.             *)
(***************************************************************************)
NothingOpen ==
    /\ self.p_level = 0 /\ self.ap_level = 0 /\ self.a_level = 0
    /\ self.brace_level = 0
    /\ self.flags \cap {"METHOD", "VBRACE", "MATHEXPR"} = {}

C14_LastStatementByFirstByte ==
    LET text == Trim(Slice(data, frame.start, Len(data)))
        first == text[1]
    IN  (Ended("eof") /\ frame.error = NoError /\ NothingOpen)
          => CASE text = <<>> -> LastItem = OkItem(<<>>)
               [] text # <<>> /\ first \in {">", "<", "^"}
                    -> LastItem = ExpectedCommandButFound("redirection")
               [] text # <<>> /\ first = "|"
                    -> LastItem = ExpectedCommandButFound("pipe")
               [] text # <<>> /\ first = "&"
                    -> LastItem = ExpectedCommandButFound("&")
               [] text # <<>> /\ first \in {"*", "%", "?", "{", "}"}
                    -> LastItem = IllegalCommandName(text)
               [] OTHER -> LastItem = OkItem(text)

\* a second statement `^a`, after blanks the trim removes, is a redirection
\* without a command
C14_Witness ==
    /\ Ended("eof") /\ frame.error = NoError /\ NothingOpen
    /\ frame.start >= 1
    /\ Len(Trim(Slice(data, frame.start, Len(data)))) >= 2
    /\ Head(Trim(Slice(data, frame.start, Len(data)))) = "^"
    /\ LastItem = ExpectedCommandButFound("redirection")

(***************************************************************************)
(* Job::expand, src/shell/job.rs.  A string is a sequence of bytes, an     *)
(* Array a sequence of strings.                                            *)
(***************************************************************************)
\* most arguments of a Job
MaxArgs == 2
\* longest line of the history
MaxLine == 3
\* most calls of Job::expand on one Job
MaxExpands == 2

\* the least member of the set of indices hits, 0 when it is empty:
\* Iterator::position, counted from 1
Least(hits) ==
    IF hits = {} THEN 0 ELSE CHOOSE i \in hits : \A k \in hits : i <= k

\* position(|&x| x == b' ') and position(|&x| x != b' ')
PositionOfSpace(s) == Least({i \in 1..Len(s) : s[i] = " "})
PositionOfNonSpace(s) == Least({i \in 1..Len(s) : s[i] # " "})

\* Job::new: the command is the first argument
JobNew(args, kind) == [command |-> args[1], args |-> args, kind |-> kind]

\* the Word Expander, expand_string(arg, shell, false): a literal word
\* expands to itself and the empty string to no word; other expanders give
\* no word whatever the argument (nothing matches), or two words (an array)
expand_string(arg, sh) ==
    CASE sh.expander = "literal" -> IF arg = <<>> THEN <<>> ELSE <<arg>>
      [] sh.expander = "nothing" -> <<>>
      [] sh.expander = "pair" -> <<arg, arg>>

\* ArgumentSplitter::new(buffer), collected: the words of buffer, split at
\* spaces
RECURSIVE ArgumentSplitter(_)
ArgumentSplitter(buffer) ==
    LET from == PositionOfNonSpace(buffer)
    IN  IF from = 0 THEN <<>>
        ELSE LET rest == SubSeq(buffer, from, Len(buffer))
                 to == PositionOfSpace(rest)
                 word == IF to = 0 THEN rest ELSE SubSeq(rest, 1, to - 1)
             IN  <<word>>
                   \o ArgumentSplitter(SubSeq(rest, Len(word) + 1, Len(rest)))

\* expand_arg, the empty expansion not replaced by one empty string
expand_arg_unpadded(arg, sh) == expand_string(arg, sh)

\* expand_arg: the expansion of arg, or one empty string
expand_arg(arg, sh) ==
    LET res == expand_string(arg, sh)
    IN  IF res = <<>> THEN << <<>> >> ELSE res

get_last_arg(buffer) ==
    LET words == ArgumentSplitter(buffer)
    IN  IF words # <<>> THEN words[Len(words)] ELSE buffer

get_first_arg(buffer) ==
    LET words == ArgumentSplitter(buffer)
    IN  IF Len(words) >= 2 THEN words[2] ELSE buffer

get_command(buffer) ==
    LET words == ArgumentSplitter(buffer)
    IN  IF words # <<>> THEN words[1] ELSE buffer

\* get_args: what follows the first space and the spaces after it, or the
\* whole buffer when nothing does
get_args(buffer) ==
    LET pos == PositionOfSpace(buffer)
    IN  IF pos = 0 THEN buffer
        ELSE LET after == SubSeq(buffer, pos + 1, Len(buffer))
                 pos2 == PositionOfNonSpace(after)
             IN  IF pos2 = 0 THEN buffer
                 ELSE SubSeq(after, pos2, Len(after))

\* flat_map(|b| expand_arg(b, shell)) over the words
RECURSIVE ExpandEach(_, _)
ExpandEach(words, sh) ==
    IF words = <<>> THEN <<>>
    ELSE expand_arg(Head(words), sh) \o ExpandEach(Tail(words), sh)

expand_args(buffer, sh) == ExpandEach(ArgumentSplitter(buffer), sh)

\* what expand_last_command makes of the line buffer of the history
OfLine(buffer, operation, sh) ==
    CASE operation = "LastArg" -> expand_arg(get_last_arg(buffer), sh)
      [] operation = "FirstArg" -> expand_arg(get_first_arg(buffer), sh)
      [] operation = "Command" -> expand_arg(get_command(buffer), sh)
      [] operation = "NoCommand" -> expand_args(get_args(buffer), sh)
      [] operation = "All" -> expand_args(buffer, sh)

\* expand_last_command, the oldest line of the history taken for the last
expand_last_command_oldest(sh, operation) ==
    IF sh.context /\ sh.history # <<>>
    THEN OfLine(sh.history[1], operation, sh)
    ELSE << <<>> >>

\* expand_last_command: from the last line of the history, or one empty
\* string when there is no context or no line
expand_last_command(sh, operation) ==
    IF sh.context /\ sh.history # <<>>
    THEN OfLine(sh.history[Len(sh.history)], operation, sh)
    ELSE << <<>> >>

\* the history tokens and the Operation of each
Operations ==
    [tok \in {<<"!", "!">>, <<"!", "$">>, <<"!", "0">>, <<"!", "^">>,
              <<"!", "*">>} |->
        CASE tok = <<"!", "!">> -> "All"
          [] tok = <<"!", "$">> -> "LastArg"
          [] tok = <<"!", "0">> -> "Command"
          [] tok = <<"!", "^">> -> "FirstArg"
          [] tok = <<"!", "*">> -> "NoCommand"]

HistoryTokens == DOMAIN Operations

\* the closure of Job::expand: the words one argument is replaced by
Expansion(arg, sh) ==
    IF arg \in HistoryTokens
    THEN expand_last_command(sh, Operations[arg])
    ELSE expand_arg(arg, sh)

\* self.args.drain().flat_map(..) of Job::expand
RECURSIVE ExpansionOfAll(_, _)
ExpansionOfAll(args, sh) ==
    IF args = <<>> THEN <<>>
    ELSE Expansion(Head(args), sh) \o ExpansionOfAll(Tail(args), sh)

\* Job::expand
expand(j, sh) == [j EXCEPT !.args = ExpansionOfAll(j.args, sh)]

(***************************************************************************)
(* The jobs and the shells.                                                *)
(***************************************************************************)
JobKinds == {"Last", "Background"}

\* the arguments: the history tokens, the empty string, a literal word
ArgWords == HistoryTokens \cup {<<>>, <<"a">>}

Jobs ==
    {JobNew(args, kind) :
        args \in UNION {[1..k -> ArgWords] : k \in 1..MaxArgs},
        kind \in JobKinds}

\* the lines of the history
Lines == SeqsUpTo({"a", "b", " "}, MaxLine)

\* a line older than the last one
OlderLine == <<"b", " ", "b">>

Histories == {<<>>} \cup {<<l>> : l \in Lines} \cup {<<OlderLine, l>> : l \in Lines}

Expanders == {"literal", "nothing", "pair"}

Shells ==
    {[context |-> FALSE, history |-> <<>>, expander |-> x] : x \in Expanders}
    \cup {[context |-> TRUE, history |-> h, expander |-> x] :
            h \in Histories, x \in Expanders}

InitJob ==
    /\ data = <<>>
    /\ self = NewSplitter
    /\ frame = NewFrame(NewSplitter)
    /\ pc = "idle"
    /\ results = <<>>
    /\ last = NoCall
    /\ tee = NoTee /\ fds = NoFds /\ refined = NoRefined
    /\ job \in Jobs
    /\ before = job
    /\ shell \in Shells
    /\ expands = 0

\* job.expand(&shell)
Expand ==
    /\ expands < MaxExpands
    /\ job' = expand(job, shell)
    /\ expands' = expands + 1
    /\ UNCHANGED <<splitterVars, shell, before, teeVars, refined>>

NextJob == Expand

SpecJob == InitJob /\ [][NextJob]_vars

(***************************************************************************)
(* C15.  After Job::expand the arguments are the groups of words of the    *)
(* original arguments, in order, and no group is empty, whatever the       *)
(* history holds: there are at least as many arguments as before.          *)
(***************************************************************************)
C15_NoArgumentSlotIsLost ==
    expands = 1
        => /\ job.args = ExpansionOfAll(before.args, shell)
           /\ \A i \in DOMAIN before.args :
                 Expansion(before.args[i], shell) # <<>>
           /\ Len(job.args) >= Len(before.args)

(***************************************************************************)
(* C16.  When no argument is a history token and the word expander gives   *)
(* every argument back as one word, and no word for the empty string, the  *)
(* Job after any number of calls of expand is the Job as it was made:      *)
(* command, arguments (the empty ones in place) and kind.                  *)
(***************************************************************************)
C16_LiteralJobIsUnchanged ==
    (/\ expands >= 1
     /\ shell.expander = "literal"
     /\ \A i \in DOMAIN before.args : before.args[i] \notin HistoryTokens)
        => job = before

\* `a ""`, expanded twice
C16_Witness ==
    /\ expands = 2
    /\ shell.expander = "literal"
    /\ before.args = << <<"a">>, <<>> >>
    /\ job = before

(***************************************************************************)
(* C17.  With a literal word expander, `!*` alone is replaced by the words *)
(* of the last line of the history but the first, and `!^` alone by the    *)
(* second word; when the line has one word only, neither yields that word. *)
(***************************************************************************)
C17_BackReferencesLeaveOutTheCommand ==
    LET words == ArgumentSplitter(shell.history[Len(shell.history)])
    IN  (/\ expands = 1
         /\ shell.expander = "literal"
         /\ shell.context /\ shell.history # <<>>
         /\ Len(before.args) = 1)
          => /\ before.args[1] = <<"!", "*">>
                  => IF Len(words) >= 2 THEN job.args = Tail(words)
                     ELSE \A k \in DOMAIN job.args :
                             words = <<>> \/ job.args[k] # words[1]
             /\ before.args[1] = <<"!", "^">>
                  => IF Len(words) >= 2 THEN job.args = <<words[2]>>
                     ELSE words = <<>> \/ job.args # <<words[1]>>

(***************************************************************************)
(* C18.  A history token is replaced by one empty string when the shell    *)
(* has no context or the history no line; otherwise by what the last line  *)
(* of the history gives, whatever the lines before it.                     *)
(***************************************************************************)
\* the expansion of the arguments when there is no history
RECURSIVE WithoutHistory(_, _)
WithoutHistory(args, sh) ==
    IF args = <<>> THEN <<>>
    ELSE (IF Head(args) \in HistoryTokens THEN << <<>> >>
          ELSE expand_arg(Head(args), sh))
           \o WithoutHistory(Tail(args), sh)

C18_OnlyTheLastLineCounts ==
    expands = 1
        => IF ~shell.context \/ shell.history = <<>>
           THEN job.args = WithoutHistory(before.args, shell)
           ELSE job = expand(before,
                         [shell EXCEPT
                            !.history = <<shell.history[Len(shell.history)]>>])

\* `!!` after the lines `b b` and `a`
C18_Witness ==
    /\ expands = 1
    /\ shell.context /\ shell.expander = "literal"
    /\ shell.history = <<OlderLine, <<"a">> >>
    /\ before.args = << <<"!", "!">> >>
    /\ job.args = << <<"a">> >>

(***************************************************************************)
(* TeeItem::write_to_all, src/shell/job.rs: one call, one read of the      *)
(* source or one write to a sink per step.  A stream is the sequence of    *)
(* its bytes: `input` is what the source has still to give, `got` of a     *)
(* sink what has been written to it.  A File owns its descriptor: when the *)
(* File is dropped the descriptor is closed (specification SpecTeeOwn adds *)
(* a second call of write_to_all and the drop of the TeeItem;              *)
(* specification SpecTeeFair is SpecTee where a read or a write that can   *)
(* be made is made).                                                       *)
(***************************************************************************)
\* most bytes the source gives
MaxBytes == 3
\* most sinks of the TeeItem as made
MaxSinks == 2
\* most calls of write_to_all on one TeeItem
MaxCalls == 2
\* the length of buf
BufSize == 4096

Min(a, b) == IF a < b THEN a ELSE b

\* what a read or a write returns in place of a count when it fails
IoError == -1

\* a sink, a File of descriptor fd
Sink(fd) == [fd |-> fd, got |-> <<>>]

\* the descriptors of the process's stdin, stdout and stderr
StdinFd == 0
StdoutFd == 1
StderrFd == 2

\* the descriptor of the source when it is Some file
SourceFd == StderrFd + MaxSinks + 1

\* a TeeItem before write_to_all is called; src tells whether source is
\* Some file or None (the process's stdin is read); `short` tells whether
\* some write has written less than it was asked to, `writes` the parity
\* of the calls of write made, `calls` the calls of write_to_all made
TeeItem(src, input, n) ==
    [pc |-> "made", source |-> src, input |-> input, taken |-> <<>>,
     sinks |-> [i \in 1..n |-> Sink(StderrFd + i)],
     buf |-> <<>>, file |-> 0, total |-> 0, result |-> "", error |-> "",
     short |-> FALSE, writes |-> 0, calls |-> 0]

\* write_out returns
ReturnOk(t) == [t EXCEPT !.pc = "returned", !.result = "Ok"]
ReturnErr(t, op) == [t EXCEPT !.pc = "returned", !.result = "Err", !.error = op]

\* the match on extra of write_to_all, then the call of write_out
write_to_all(t, extra) ==
    LET c == [t EXCEPT !.calls = @ + 1, !.result = "", !.error = ""]
    IN  CASE extra = "Both" -> [c EXCEPT !.pc = "panicked"]
          [] extra = "Stdout" ->
                [c EXCEPT !.pc = "read", !.sinks = Append(@, Sink(StdoutFd))]
          [] extra = "Stderr" ->
                [c EXCEPT !.pc = "read", !.sinks = Append(@, Sink(StderrFd))]
          [] OTHER -> [c EXCEPT !.pc = "read"]

\* what a read of the source can return: an error, or a count of bytes, 0
\* only at the end of the stream
ReadOutcomes(t) ==
    {IoError} \cup (IF t.input = <<>> THEN {0}
                    ELSE 1..Min(BufSize, Len(t.input)))

\* let len = source.read(&mut buf)?, and the start of the loop over sinks
ReadStep(t, len) ==
    IF len = IoError THEN ReturnErr(t, "read")
    ELSE IF len = 0 THEN ReturnOk(t)
    ELSE LET chunk == SubSeq(t.input, 1, len)
             u == [t EXCEPT !.buf = chunk,
                            !.input = SubSeq(@, len + 1, Len(@)),
                            !.taken = @ \o chunk]
         IN  IF t.sinks = <<>> THEN u
             ELSE [u EXCEPT !.pc = "write", !.file = 1, !.total = 0]

\* what a write of the rest of the chunk can return: an error, or a count
\* of bytes up to what was asked
WriteOutcomes(t) == {IoError} \cup (0..(Len(t.buf) - t.total))

\* the sink `file` has the whole chunk: the next sink, or the next read
NextSink(t) ==
    IF t.file = Len(t.sinks) THEN [t EXCEPT !.pc = "read"]
    ELSE [t EXCEPT !.file = @ + 1, !.total = 0]

\* the bytes buf[total..total + wrote] are written to the sink `file`
Written(t, wrote) ==
    [t EXCEPT !.sinks[t.file].got =
                  @ \o SubSeq(t.buf, t.total + 1, t.total + wrote),
              !.total = @ + wrote,
              !.short = @ \/ wrote < Len(t.buf) - t.total,
              !.writes = 1 - @]

\* WriteStep, a write taken to have written all it was asked to
WriteStepNoRetry(t, wrote) ==
    IF wrote = IoError THEN ReturnErr(t, "write")
    ELSE NextSink(Written(t, wrote))

\* WriteStep, a sink that fails left out and the copy carried on
WriteStepPastError(t, wrote) ==
    IF wrote = IoError THEN NextSink(t)
    ELSE LET u == Written(t, wrote)
         IN  IF u.total = Len(u.buf) THEN NextSink(u) ELSE u

\* let wrote = file.write(&buf[total..len])?; total += wrote; and the break
WriteStep(t, wrote) ==
    IF wrote = IoError THEN ReturnErr(t, "write")
    ELSE LET u == Written(t, wrote)
         IN  IF u.total = Len(u.buf) THEN NextSink(u) ELSE u

TeeItems ==
    {TeeItem(src, input, n) :
        src \in {"file", "stdin"},
        input \in SeqsUpTo({"x", "y"}, MaxBytes),
        n \in 0..MaxSinks}

\* the descriptors of the process that holds the TeeItem t: its stdin,
\* stdout and stderr, and those of the Files of t, are open
DescriptorsOf(t) ==
    [d \in StdinFd..SourceFd |->
        [open |-> \/ d \in {StdinFd, StdoutFd, StderrFd}
                  \/ \E i \in DOMAIN t.sinks : t.sinks[i].fd = d
                  \/ (d = SourceFd /\ t.source = "file"),
         closes |-> 0]]

InitTee ==
    /\ data = <<>>
    /\ self = NewSplitter
    /\ frame = NewFrame(NewSplitter)
    /\ pc = "idle"
    /\ results = <<>>
    /\ last = NoCall
    /\ job = NoJob /\ shell = NoShell /\ before = NoJob /\ expands = 0
    /\ tee \in TeeItems
    /\ fds = DescriptorsOf(tee)
    /\ refined = NoRefined

\* tee.write_to_all(extra) is called
WriteToAll ==
    /\ tee.pc = "made"
    /\ \E extra \in {"None", "Stdout", "Stderr", "Both"} :
          tee' = write_to_all(tee, extra)
    /\ UNCHANGED <<splitterVars, jobVars, fds, refined>>

\* write_out reads the source
Read ==
    /\ tee.pc = "read"
    /\ \E len \in ReadOutcomes(tee) : tee' = ReadStep(tee, len)
    /\ UNCHANGED <<splitterVars, jobVars, fds, refined>>

\* write_out writes to the sink `file`
Write ==
    /\ tee.pc = "write"
    /\ \E wrote \in WriteOutcomes(tee) : tee' = WriteStep(tee, wrote)
    /\ UNCHANGED <<splitterVars, jobVars, fds, refined>>

NextTee == WriteToAll \/ Read \/ Write

SpecTee == InitTee /\ [][NextTee]_vars

\* write_out is one sequential loop: a read or a write it has come to is
\* made, and the call returns
SpecTeeFair ==
    InitTee /\ [][NextTee]_vars /\ WF_vars(Read) /\ WF_vars(Write)

(***************************************************************************)
(* C19.  When write_to_all has returned Ok, what every sink has got is     *)
(* what was read from the source, byte for byte, whatever the number of    *)
(* sinks and however short the writes were.                                *)
(***************************************************************************)
C19_EverySinkGetsEveryByte ==
    (tee.pc = "returned" /\ tee.result = "Ok")
        => \A i \in DOMAIN tee.sinks : tee.sinks[i].got = tee.taken

\* three bytes copied to two sinks and the terminal, some write short
C19_Witness ==
    /\ tee.pc = "returned" /\ tee.result = "Ok"
    /\ tee.short
    /\ Len(tee.taken) = 3
    /\ Len(tee.sinks) = 3
    /\ \A i \in DOMAIN tee.sinks : tee.sinks[i].got = tee.taken

(***************************************************************************)
(* C20.  A read or a write that fails ends the call with that error, with  *)
(* nothing more read or written; and at every point of the copy what a     *)
(* sink has got is a prefix of what was read from the source, and no sink  *)
(* has got more than a sink before it in the list.                         *)
(***************************************************************************)
IsPrefix(a, b) == Len(a) <= Len(b) /\ a = SubSeq(b, 1, Len(a))

SinksHoldPrefixes ==
    tee.pc # "none"
        => /\ \A i \in DOMAIN tee.sinks : IsPrefix(tee.sinks[i].got, tee.taken)
           /\ \A i, k \in DOMAIN tee.sinks :
                 i < k => Len(tee.sinks[i].got) >= Len(tee.sinks[k].got)

FailureEndsTheCopy ==
    /\ (tee.pc \in {"read", "write"} /\ tee'.result = "Err")
          => /\ tee'.pc = "returned"
             /\ tee'.error = tee.pc
             /\ tee'.sinks = tee.sinks /\ tee'.input = tee.input
    /\ tee.pc = "returned" => tee' = tee

C20_FailureLeavesPrefixes ==
    []SinksHoldPrefixes /\ [][FailureEndsTheCopy]_vars

\* a write to the second sink has failed: the first sink got more than it
C20_Witness ==
    /\ tee.pc = "returned" /\ tee.result = "Err" /\ tee.error = "write"
    /\ Len(tee.sinks) >= 2
    /\ tee.sinks[2].got # <<>>
    /\ Len(tee.sinks[1].got) > Len(tee.sinks[2].got)
    /\ tee.input # <<>>

\* close(d), as the drop of a File of descriptor d makes it
Close(f, d) == [f EXCEPT ![d] = [open |-> FALSE, closes |-> @.closes + 1]]

\* the descriptors ds closed one after the other
RECURSIVE CloseAll(_, _)
CloseAll(f, ds) ==
    IF ds = <<>> THEN f ELSE CloseAll(Close(f, Head(ds)), Tail(ds))

\* the descriptors of the Files of the TeeItem t in the order of their drop:
\* source, then the sinks
FilesOf(t) ==
    (IF t.source = "file" THEN <<SourceFd>> ELSE <<>>)
        \o [i \in DOMAIN t.sinks |-> t.sinks[i].fd]

\* write_to_all is called again on the TeeItem after it has returned
WriteToAllAgain ==
    /\ tee.pc = "returned"
    /\ tee.calls < MaxCalls
    /\ \E extra \in {"None", "Stdout", "Stderr", "Both"} :
          tee' = write_to_all(tee, extra)
    /\ UNCHANGED <<splitterVars, jobVars, fds, refined>>

\* the TeeItem is dropped: each of its Files closes its descriptor
Drop ==
    /\ tee.pc \in {"made", "returned"}
    /\ tee' = [tee EXCEPT !.pc = "dropped"]
    /\ fds' = CloseAll(fds, FilesOf(tee))
    /\ UNCHANGED <<splitterVars, jobVars, refined>>

NextTeeOwn == WriteToAll \/ Read \/ Write \/ WriteToAllAgain \/ Drop

SpecTeeOwn == InitTee /\ [][NextTeeOwn]_vars

(***************************************************************************)
(* RefinedJob, src/shell/job.rs: its constructors and the setters stdin,   *)
(* stdout and stderr (specification SpecRefined).  A File is its           *)
(* descriptor; an empty slot (None) is NoFile.  `refined` holds the job,   *)
(* the latest operation on it and the File that was given.                 *)
(***************************************************************************)
\* most Files handed to the setters of one job
MaxFiles == 4

\* None in a slot of type Option<File>
NoFile == 0

\* the match of the set_field! macro
set_field(j, field, arg) ==
    CASE j.variant = "External" -> [j EXCEPT !.command[field] = arg]
      [] j.variant \in {"Builtin", "Function", "Tee"} ->
            [j EXCEPT ![field] = arg]
      [] OTHER -> j

\* RefinedJob::stdin, the File stored in the slot of stdout
stdin_into_stdout(j, file) ==
    IF j.variant = "Cat" THEN [j EXCEPT !.stdout = file]
    ELSE set_field(j, "stdout", file)

stdin(j, file) ==
    IF j.variant = "Cat" THEN [j EXCEPT !.stdin = file]
    ELSE set_field(j, "stdin", file)

stdout(j, file) ==
    IF j.variant = "Cat" THEN [j EXCEPT !.stdout = file]
    ELSE set_field(j, "stdout", file)

stderr(j, file) == set_field(j, "stderr", file)

builtin(name, args) ==
    [variant |-> "Builtin", name |-> name, args |-> args,
     stdin |-> NoFile, stdout |-> NoFile, stderr |-> NoFile]

function(name, args) ==
    [variant |-> "Function", name |-> name, args |-> args,
     stdin |-> NoFile, stdout |-> NoFile, stderr |-> NoFile]

cat(sources) ==
    [variant |-> "Cat", sources |-> sources,
     stdin |-> NoFile, stdout |-> NoFile]

\* RefinedJob::tee; an Option<TeeItem> is <<>> (None) or <<item>> (Some)
tee_job(tee_out, tee_err) ==
    [variant |-> "Tee", items |-> <<tee_out, tee_err>>,
     stdin |-> NoFile, stdout |-> NoFile, stderr |-> NoFile]

\* RefinedJob::External of a new Command: nothing configured
external ==
    [variant |-> "External",
     command |-> [stdin |-> NoFile, stdout |-> NoFile, stderr |-> NoFile]]

\* the Files there are to hand to the setters, and those of the sources
HandedFiles == (StderrFd + 1)..(StderrFd + MaxFiles)
SourceFiles == <<StderrFd + MaxFiles + 1, StderrFd + MaxFiles + 2>>

\* the Files the job j holds
Held(j) ==
    LET slots == IF j.variant = "External" THEN j.command ELSE j
    IN  ({slots.stdin, slots.stdout} \ {NoFile})
          \cup (IF j.variant = "Cat"
                   THEN {j.sources[i] : i \in DOMAIN j.sources}
                   ELSE {slots.stderr} \ {NoFile})

\* the Files of the set dropped: each closes its descriptor
DropFiles(f, dropped) ==
    [d \in DOMAIN f |-> IF d \in dropped THEN Close(f, d)[d] ELSE f[d]]

OptionalTeeItems == {<<>>, <<TeeItem("stdin", <<>>, 0)>>}

RefinedJobs ==
    {builtin(name, args) : name \in {<<"a">>}, args \in {<<>>, << <<"a">> >>}}
      \cup {function(name, args) :
                name \in {<<"a">>}, args \in {<<>>, << <<"a">> >>}}
      \cup {cat(sources) : sources \in {<<>>, SourceFiles}}
      \cup {tee_job(o, e) : o \in OptionalTeeItems, e \in OptionalTeeItems}
      \cup {external}

InitRefined ==
    /\ data = <<>>
    /\ self = NewSplitter
    /\ frame = NewFrame(NewSplitter)
    /\ pc = "idle"
    /\ results = <<>>
    /\ last = NoCall
    /\ job = NoJob /\ shell = NoShell /\ before = NoJob /\ expands = 0
    /\ tee = NoTee
    /\ \E j \in RefinedJobs : refined = [job |-> j, op |-> "new", file |-> NoFile]
    /\ fds = [d \in StdinFd..(StderrFd + MaxFiles + Len(SourceFiles)) |->
                 [open |-> TRUE, closes |-> 0]]

\* the setter op is called with the File file, which is moved into it: what
\* the job held and holds no more, the File given included, is dropped
Set(op, file) ==
    LET j == CASE op = "stdin" -> stdin(refined.job, file)
               [] op = "stdout" -> stdout(refined.job, file)
               [] OTHER -> stderr(refined.job, file)
    IN  /\ refined.op # "none"
        /\ fds[file].open /\ file \notin Held(refined.job)
        /\ refined' = [job |-> j, op |-> op, file |-> file]
        /\ fds' = DropFiles(fds, (Held(refined.job) \cup {file}) \ Held(j))
        /\ UNCHANGED <<splitterVars, jobVars, tee>>

SetStdin == \E file \in HandedFiles : Set("stdin", file)
SetStdout == \E file \in HandedFiles : Set("stdout", file)
SetStderr == \E file \in HandedFiles : Set("stderr", file)

NextRefined == SetStdin \/ SetStdout \/ SetStderr

SpecRefined == InitRefined /\ [][NextRefined]_vars

(***************************************************************************)
(* C21.  The copy loop of write_to_all returns only from a read of length  *)
(* zero (Ok) or from the first read or write that fails (Err); and, the    *)
(* source being finite, a call that has started returns, whatever count    *)
(* from zero to the length asked each write gives.                         *)
(***************************************************************************)
ReturnsAtEndOrError ==
    (tee.pc # "returned" /\ tee'.pc = "returned")
        => \/ tee'.result = "Ok" /\ tee.pc = "read" /\ tee.input = <<>>
           \/ tee'.result = "Err" /\ tee'.error = tee.pc

C21_CopyLoopReturns ==
    /\ [][ReturnsAtEndOrError]_vars
    /\ (tee.pc \in {"read", "write"}) ~> (tee.pc = "returned")

(***************************************************************************)
(* C22.  No two Files of the TeeItem hold the same descriptor and none     *)
(* holds the descriptor of the process's stdout or stderr (the sink added  *)
(* for the terminal is a duplicate); so the process's stdout and stderr    *)
(* stay open when the TeeItem is dropped and no descriptor is closed       *)
(* twice, also after two calls of write_to_all.                            *)
(***************************************************************************)
C22_EachDescriptorHasOneOwner ==
    tee.pc # "none"
        => /\ \A i, k \in DOMAIN tee.sinks :
                 i # k => tee.sinks[i].fd # tee.sinks[k].fd
           /\ \A i \in DOMAIN tee.sinks :
                 tee.sinks[i].fd \notin {StdoutFd, StderrFd}
           /\ fds[StdoutFd].open /\ fds[StderrFd].open
           /\ \A d \in DOMAIN fds : fds[d].closes <= 1

(***************************************************************************)
(* C23.  A RefinedJob as its constructor made it (builtin, function, cat,  *)
(* tee) has every endpoint slot empty.  On a Builtin, Function or Tee job  *)
(* stdin, stdout and stderr each store the File in the slot of their name, *)
(* every other field staying as it was, and the File the slot held is      *)
(* dropped (its descriptor closed, once), no other File of the job being   *)
(* closed.  On a Cat job stderr changes nothing, and stdin and stdout set  *)
(* their slot, the sources and the other slot staying as they were.        *)
(***************************************************************************)
FreshSlotsAreEmpty ==
    (refined.op = "new" /\ refined.job.variant # "External")
        => /\ refined.job.stdin = NoFile /\ refined.job.stdout = NoFile
           /\ refined.job.variant # "Cat" => refined.job.stderr = NoFile

SetterSetsItsSlotOnly ==
    LET b == refined.job
        a == refined'.job
        op == refined'.op
        file == refined'.file
    IN  (refined.op # "none" /\ refined' # refined
            /\ b.variant \in {"Builtin", "Function", "Tee", "Cat"})
          => /\ DOMAIN a = DOMAIN b
             /\ IF b.variant = "Cat" /\ op = "stderr" THEN a = b
                ELSE /\ a[op] = file
                     /\ \A g \in DOMAIN b \ {op} : a[g] = b[g]
                     /\ b[op] # NoFile
                           => /\ ~fds'[b[op]].open
                              /\ fds'[b[op]].closes = fds[b[op]].closes + 1
             /\ \A d \in Held(a) : fds'[d].open /\ fds'[d].closes = 0

C23_SettersKeepTheOtherSlots ==
    []FreshSlotsAreEmpty /\ [][SetterSetsItsSlotOnly]_vars

\* stdout set a second time on a Tee job whose other two slots are filled:
\* the File it held is closed, the others are open
C23_Witness ==
    /\ refined.op = "stdout"
    /\ refined.job.variant = "Tee"
    /\ refined.job.items[1] # <<>>
    /\ refined.job.stdin # NoFile /\ refined.job.stderr # NoFile
    /\ \E d \in HandedFiles : ~fds[d].open /\ fds[d].closes = 1
    /\ \A d \in Held(refined.job) : fds[d].open

(***************************************************************************)
(* C24.  While VBRACE is set, a byte met that is not the closing `}`       *)
(* leaves VBRACE set and does not end the statement; when it is not one of *)
(* [A-Za-z0-9_], `:` and `,` (a `;` or a backslash, say) an error is       *)
(* recorded for the statement, which is InvalidCharacter of that byte when *)
(* it is the first.                                                        *)
(***************************************************************************)
BracedVarLegal(c) == ~is_invalid(c) \/ c \in {":", ","}

C24_OnlyNameBytesInsideBracedVar ==
    [][(Met /\ "VBRACE" \in self.flags /\ Byte # "}") =>
          /\ pc' = "loop"
          /\ "VBRACE" \in self'.flags
          /\ ~BracedVarLegal(Byte) =>
                /\ frame'.error # NoError
                /\ frame.error = NoError =>
                      frame'.error = InvalidCharacter(Byte, self'.read)]_vars

(***************************************************************************)
(* C25.  The byte after a backslash met by the scan has no effect: with    *)
(* any other byte in its place the calls from there on end at the same     *)
(* places of the input and in the same way, with the same errors, and      *)
(* leave the same flags and counters.                                      *)
(***************************************************************************)
\* the items the calls yield from the scan (sp, fr) on, each without its
\* text and with the splitter it leaves
RECURSIVE OutlineFrom(_, _, _)
OutlineFrom(d, sp, fr) ==
    LET t == Scan(d, sp, fr)
    IN  IF t.ctl = "panic" THEN <<[item |-> PanicItem, how |-> t.how, sp |-> t.sp]>>
        ELSE IF t.item = NoneItem THEN <<>>
        ELSE <<[item |-> [t.item EXCEPT !.text = <<>>], how |-> t.how,
                sp |-> t.sp]>>
                 \o OutlineFrom(d, t.sp, NewFrame(t.sp))

C25_EscapedByteHasNoEffect ==
    (Met /\ Byte = "\\" /\ self.read + 2 <= Len(data))
        => \A b \in WideAlphabet :
              OutlineFrom([data EXCEPT ![self.read + 2] = b], self, frame)
                  = OutlineFrom(data, self, frame)

(***************************************************************************)
(* C26.  When a call has returned the synthetic `else`, the flags and      *)
(* counters of the splitter are those it had when the scan stood at        *)
(* else_pos, before the look-ahead word; and the calls that follow yield   *)
(* what a new splitter yields for the rest of the input.                   *)
(***************************************************************************)
\* the splitter after n calls of next() from sp
RECURSIVE AfterCalls(_, _, _)
AfterCalls(d, sp, n) ==
    IF n = 0 THEN sp ELSE AfterCalls(d, NextOf(d, sp).sp, n - 1)

\* the splitter when the scan (sp, fr), which does not return before,
\* has read up to pos
RECURSIVE ScanUntil(_, _, _, _)
ScanUntil(d, sp, fr, pos) ==
    IF sp.read >= pos THEN sp
    ELSE LET t == ByteStep(d, sp, fr) IN ScanUntil(d, t.sp, t.fr, pos)

\* the splitter of the latest call when it stood at else_pos
BeforeLookahead ==
    LET entry == AfterCalls(data, NewSplitter, Len(results) - 1)
    IN  ScanUntil(data, entry, NewFrame(entry), self.read)

C26_RewindRestoresTheState ==
    Ended("else")
        => /\ self = BeforeLookahead
           /\ Collect(data, self) = Shift(SplitAll(Rest), self.read)

(***************************************************************************)
(* C27.  MATHEXPR is cleared only by a `)` met at math_paren_level 0 that  *)
(* another `)` follows, and math_paren_level is 0 whenever MATHEXPR is     *)
(* clear.  A `)` met in an arithmetic expression at level 0 raises         *)
(* UnterminatedArithmetic when it is the last byte of the input and        *)
(* InvalidCharacter when another byte than `)` follows, MATHEXPR staying   *)
(* set.  And the `))` that closes the expression is the one that balances  *)
(* it: in an input that is one `$((` and then parentheses and plain bytes, *)
(* as many `(` as `)` lie between the `$((` and the `)` that clears        *)
(* MATHEXPR.                                                               *)
(***************************************************************************)
MathClearedOnlyByClosingPair ==
    ("MATHEXPR" \in self.flags /\ "MATHEXPR" \notin self'.flags)
        => /\ Met /\ Byte = ")"
           /\ self.math_paren_level = 0
           /\ self.read + 2 <= Len(data) /\ data[self.read + 2] = ")"

LevelZeroOutsideMath ==
    (pc # "panicked" /\ "MATHEXPR" \notin self.flags)
        => self.math_paren_level = 0

UnclosedAtLevelZeroIsError ==
    (/\ Met /\ Byte = ")" /\ "MATHEXPR" \in self.flags
     /\ self.math_paren_level = 0
     /\ ~(self.read + 2 <= Len(data) /\ data[self.read + 2] = ")"))
        => /\ "MATHEXPR" \in self'.flags
           /\ Len(last'.raised) = Len(last.raised) + 1
           /\ last'.raised[Len(last'.raised)].kind =
                 IF self.read + 1 = Len(data) THEN "UnterminatedArithmetic"
                 ELSE "InvalidCharacter"

\* the offset of the `$((` of an input that is plain bytes, one `$((`, and
\* then parentheses and plain bytes; -1 for any other input
OnlyArithmeticAt ==
    LET at == {s \in 0..(Len(data) - 3) :
                 /\ SubSeq(data, s + 1, s + 3) = <<"$", "(", "(">>
                 /\ \A i \in 1..s : data[i] = "a"
                 /\ \A i \in (s + 4)..Len(data) :
                       data[i] \in {"(", ")", "a"}}
    IN  IF at = {} THEN -1 ELSE CHOOSE s \in at : TRUE

ClosingPairBalances ==
    (/\ "MATHEXPR" \in self.flags /\ "MATHEXPR" \notin self'.flags
     /\ OnlyArithmeticAt >= 0)
        => Cardinality({i \in (OnlyArithmeticAt + 4)..self.read :
                          data[i] = "("})
             = Cardinality({i \in (OnlyArithmeticAt + 4)..self.read :
                              data[i] = ")"})

C27_ArithmeticClosedByItsPair ==
    /\ []LevelZeroOutsideMath
    /\ [][/\ MathClearedOnlyByClosingPair
          /\ UnclosedAtLevelZeroIsError
          /\ ClosingPairBalances]_vars

(***************************************************************************)
(* C28.  Every InvalidCharacter(c, n) a call has returned names a place of *)
(* the input: the byte at position n of the whole input, counted from 1,   *)
(* is c.                                                                   *)
(***************************************************************************)
C28_InvalidCharacterIsAtItsPosition ==
    \A i \in DOMAIN results :
        results[i].kind = "InvalidCharacter"
            => /\ results[i].pos \in 1..Len(data)
               /\ data[results[i].pos] = results[i].ch

(***************************************************************************)
(* C29.  A `)` met inside a double-quoted region in which nothing was      *)
(* opened changes neither p_level nor ap_level nor METHOD: it closes no    *)
(* substitution or method call opened before the region.                   *)
(***************************************************************************)
\* DQUOTE is set by the one `"` read so far, and no `(` has been read
\* since
QuotedWithNothingOpened ==
    /\ "DQUOTE" \in self.flags
    /\ \E q \in 1..self.read :
          /\ data[q] = "\""
          /\ \A i \in 1..(q - 1) : data[i] \notin {"\"", "'", "\\"}
          /\ \A i \in (q + 1)..self.read :
                data[i] \notin {"(", "\"", "\\"}

C29_QuotedParenClosesNothing ==
    [][(Met /\ Byte = ")" /\ QuotedWithNothingOpened) =>
          /\ self'.p_level = self.p_level
          /\ self'.ap_level = self.ap_level
          /\ ("METHOD" \in self'.flags) = ("METHOD" \in self.flags)]_vars

(***************************************************************************)
(* C30.  No call of next() panics: every call returns None, Ok or Err.     *)
(* Inside a call the statement and the look-ahead word start at or before  *)
(* the byte being matched, a `#` that is not the first byte of the input   *)
(* has a byte before it, and between calls read is within the input.       *)
(***************************************************************************)
C30_NoReadOutsideTheInput ==
    /\ pc # "panicked"
    /\ Met => /\ frame.start <= self.read
              /\ frame.else_found => frame.else_pos <= self.read
              /\ (Byte = "#" /\ self.read # 0) => self.read - 1 >= 0
    /\ pc = "idle" => self.read <= Len(data)

(***************************************************************************)
(* C31.  Every statement a call has yielded as Ok, ended by a `;`, by a    *)
(* comment, by the rewind after `else` or by the end of the input, is the  *)
(* one Ok result of a new splitter given its text alone (the text not      *)
(* being empty).                                                           *)
(***************************************************************************)
C31_OkStatementAloneIsOk ==
    data \notin NestedInputs
        => \A i \in DOMAIN results :
              (results[i].tag = "Ok" /\ results[i].text # <<>>)
                  => SplitAll(results[i].text) = <<OkItem(results[i].text)>>

====
